---- MODULE Spec2Model ----
(***************************************************************************)
(* Conversation registry, message store and request handlers of the chat   *)
(* backend (database_Conv.py, database.py, api.py, main.py).               *)
(*                                                                         *)
(* The datastore is the two tables `conversations` and `chat_history`.     *)
(* Every SQL statement is one atomic step whose effect is visible to every *)
(* other request at once; a handler that issues several statements takes   *)
(* several steps.  Every function opens its own connection                 *)
(* (get_db_connection); whether it is obtained, and whether a later        *)
(* statement on it raises, is an input of each step.                       *)
(* cursor.rowcount of an UPDATE is the number of rows the statement        *)
(* changed (the connector's default, no FOUND_ROWS flag).                  *)
(*                                                                         *)
(* create_conversation and switch_conversation issue two statements and    *)
(* then conn.commit().  The repository fixes neither the storage engine    *)
(* nor the isolation level, so when the second statement raises, the first *)
(* one either stays (an engine without transactions) or is undone when the *)
(* connection closes uncommitted (Rollback); both outcomes are modelled.   *)
(***************************************************************************)
EXTENDS Integers, Sequences, FiniteSets, TLC

VARIABLES
    convs,       \* table conversations: id -> row
    nextConvId,  \* AUTO_INCREMENT of conversations
    msgs,        \* table chat_history: id -> row
    nextMsgId,   \* AUTO_INCREMENT of chat_history
    now,         \* the datastore clock, NOW()
    pc,          \* per request slot: the statement the handler is at
    req,         \* per request slot: the request being served
    loc,         \* per request slot: the handler's local variables and result
    userTitled,  \* conversations whose label was last written by a user rename
    cascade      \* the schema: chat_history.conversation_id is a foreign key
                 \* ON DELETE CASCADE (delete_conversation's docstring leaves it open)

vars == <<convs, nextConvId, msgs, nextMsgId, now, pc, req, loc, userTitled, cascade>>

(***************************************************************************)
(* Bounds of the model.                                                    *)
(***************************************************************************)
MaxConvs == 2
MaxMsgs == 2
\* messages of a specification in which two chat turns run at once
MaxTurnMsgs == 4
MaxTime == 1

Procs == {"p1", "p2"}
Users == {"u1", "u2"}
ConvIds == 1..MaxConvs

DefaultLabel == "New Chat"
\* labels a caller passes to create / rename
Labels == {DefaultLabel, "Trip plan"}
\* titles generate_chat_label can return: the model's title or user_message[:40]
Titles == {DefaultLabel, "Greeting"}
UserMessage == "hello"
\* the outcome of a completion call: a text, or an exception with a message
TextFailure == "timeout"
VisionFailure == "vision unavailable"
\* f"AI Error: {str(e)}"
ErrorText(e) ==
    CASE e = TextFailure -> "AI Error: timeout"
      [] e = VisionFailure -> "AI Error: vision unavailable"
FallbackNote == "reply (Note: Image processed via text fallback)"
\* the texts get_ai_response returns
AIReplies == {"reply", "vision reply", FallbackNote, ErrorText(TextFailure)}
\* the context message /upload stores for an image (it holds the uploads/ URL)
ImageContext == "SYSTEM: User uploaded an image (uploads/photo.png)"

\* locals of a handler: id, label: the conversation it holds (active_conv, new_id);
\* conn: whether its last connection / statement succeeded; status: what it returned;
\* tx: the user's rows before and after the uncommitted UPDATE of the call
NoTx == [old |-> <<>>, new |-> <<>>]
\* no completion request made
NoSent == [vision |-> <<>>, text |-> <<>>]
\* first: the request is a chat or upload of a user who has no conversation yet;
\* title: new_label, the title generate_chat_label returned
NoLoc == [id |-> 0, label |-> "", conn |-> TRUE, reply |-> "", hist |-> <<>>, status |-> "",
          image |-> FALSE, calls |-> <<>>, uid |-> 0, sent |-> NoSent,
          tx |-> NoTx, first |-> FALSE, title |-> ""]
NoReq == [op |-> "none", user |-> "", cid |-> 0, label |-> ""]

(***************************************************************************)
(* SQL statements of database_Conv.py as functions of the table.           *)
(***************************************************************************)
\* mutant: the inserted row is not marked active
ConvRow_inactive(u, l, t) ==
    [user_id |-> u, label |-> l, is_active |-> FALSE, created_at |-> t, updated_at |-> t]

ConvRow(u, l, t) ==
    [user_id |-> u, label |-> l, is_active |-> TRUE, created_at |-> t, updated_at |-> t]

\* mutant: create_conversation without its deactivating UPDATE
DeactivateActive_skipped(cs, u, t) == cs

\* UPDATE ... SET is_active = FALSE, updated_at = NOW() WHERE user_id = u AND is_active = TRUE
DeactivateActive(cs, u, t) ==
    [c \in DOMAIN cs |->
        IF cs[c].user_id = u /\ cs[c].is_active
        THEN [cs[c] EXCEPT !.is_active = FALSE, !.updated_at = t]
        ELSE cs[c]]

\* mutant: the INSERT drops the label argument (the column default applies)
InsertConversation_nolabel(cs, id, u, l, t) ==
    [c \in DOMAIN cs \cup {id} |->
        IF c = id
        THEN [user_id |-> u, label |-> "New Chat", is_active |-> TRUE,
              created_at |-> t, updated_at |-> t]
        ELSE cs[c]]

\* INSERT INTO conversations (user_id, label, is_active) VALUES (u, l, TRUE)
InsertConversation(cs, id, u, l, t) ==
    [c \in DOMAIN cs \cup {id} |-> IF c = id THEN ConvRow(u, l, t) ELSE cs[c]]

\* mutant: switch_conversation without its deactivating UPDATE
DeactivateAll_skipped(cs, u, t) == cs

\* UPDATE ... SET is_active = FALSE, updated_at = NOW() WHERE user_id = u
DeactivateAll(cs, u, t) ==
    [c \in DOMAIN cs |->
        IF cs[c].user_id = u
        THEN [cs[c] EXCEPT !.is_active = FALSE, !.updated_at = t]
        ELSE cs[c]]

\* UPDATE ... SET is_active = TRUE, updated_at = NOW() WHERE id = cid AND user_id = u
ActivateOwned(cs, cid, u, t) ==
    [c \in DOMAIN cs |->
        IF c = cid /\ cs[c].user_id = u
        THEN [cs[c] EXCEPT !.is_active = TRUE, !.updated_at = t]
        ELSE cs[c]]

\* UPDATE ... SET label = l, updated_at = NOW() WHERE id = cid
SetLabel(cs, cid, l, t) ==
    [c \in DOMAIN cs |->
        IF c = cid THEN [cs[c] EXCEPT !.label = l, !.updated_at = t] ELSE cs[c]]

\* mutant: the UPDATE without its `AND label = 'New Chat'` condition
SetLabelIfDefault_unconditional(cs, cid, l, t) ==
    [c \in DOMAIN cs |->
        IF c = cid THEN [cs[c] EXCEPT !.label = l, !.updated_at = t] ELSE cs[c]]

\* mutant: read-then-write on the label the turn read at resolution
SetLabelIfDefault_always(cs, cid, l, t) ==
    [c \in DOMAIN cs |->
        IF c = cid /\ cs[c].label # l
        THEN [cs[c] EXCEPT !.label = l, !.updated_at = t]
        ELSE cs[c]]

\* UPDATE ... SET label = l, updated_at = NOW() WHERE id = cid AND label = 'New Chat'
SetLabelIfDefault(cs, cid, l, t) ==
    [c \in DOMAIN cs |->
        IF c = cid /\ cs[c].label = DefaultLabel
        THEN [cs[c] EXCEPT !.label = l, !.updated_at = t]
        ELSE cs[c]]

\* UPDATE ... SET is_active = FALSE, updated_at = NOW() WHERE id = cid
SetInactive(cs, cid, t) ==
    [c \in DOMAIN cs |->
        IF c = cid THEN [cs[c] EXCEPT !.is_active = FALSE, !.updated_at = t] ELSE cs[c]]

\* DELETE FROM conversations WHERE id = cid
DeleteRow(cs, cid) == [c \in DOMAIN cs \ {cid} |-> cs[c]]

\* the rows WHERE user_id = u
RowsOf(cs, u) == [c \in {d \in DOMAIN cs : cs[d].user_id = u} |-> cs[c]]

\* what an UPDATE of u's rows leaves uncommitted: u's rows before and after it
Uncommitted(before, after, u) ==
    IF before = after THEN NoTx ELSE [old |-> RowsOf(before, u), new |-> RowsOf(after, u)]

\* conn.close() without conn.commit(): the uncommitted UPDATE is undone by an engine
\* with transactions (which lets no other request write the user's rows meanwhile),
\* kept by one without
Rollback(cs, u, tx, undone) ==
    IF undone /\ tx # NoTx /\ RowsOf(cs, u) = tx.new
    THEN [c \in DOMAIN cs |-> IF c \in DOMAIN tx.old THEN tx.old[c] ELSE cs[c]]
    ELSE cs

\* cursor.rowcount after an UPDATE: the rows whose stored value changed
RowCount(before, after) ==
    Cardinality({c \in DOMAIN before : c \in DOMAIN after => after[c] # before[c]})

\* SELECT * ... WHERE user_id = u AND is_active = TRUE ORDER BY created_at DESC LIMIT 1:
\* the rows the query can return (rows that tie on created_at come in any order)
ActiveOf(cs, u) == {c \in DOMAIN cs : cs[c].user_id = u /\ cs[c].is_active}

\* mutant: the query without its `user_id = %s` condition
MostRecentActive_anyuser(cs, u) ==
    {c \in DOMAIN cs : cs[c].is_active /\
        \A d \in DOMAIN cs : cs[d].is_active => cs[d].created_at <= cs[c].created_at}

MostRecentActive(cs, u) ==
    {c \in ActiveOf(cs, u) : \A d \in ActiveOf(cs, u) : cs[d].created_at <= cs[c].created_at}

(***************************************************************************)
(* SQL statements of database.py.                                          *)
(***************************************************************************)
\* mutant: the INSERT leaves conversation_id at its default (NULL)
InsertMessage_unlinked(ms, id, u, role, content, cid) ==
    [m \in DOMAIN ms \cup {id} |->
        IF m = id
        THEN [user_id |-> u, role |-> role, content |-> content, conversation_id |-> 0]
        ELSE ms[m]]

\* INSERT INTO chat_history (user_id, role, content, conversation_id)
InsertMessage(ms, id, u, role, content, cid) ==
    [m \in DOMAIN ms \cup {id} |->
        IF m = id
        THEN [user_id |-> u, role |-> role, content |-> content, conversation_id |-> cid]
        ELSE ms[m]]

\* DELETE FROM chat_history WHERE conversation_id = cid
DeleteMessagesOf(ms, cid) ==
    [m \in {x \in DOMAIN ms : ms[x].conversation_id # cid} |-> ms[m]]

\* mutant: ORDER BY id DESC
RECURSIVE Ascending_descending(_)
Ascending_descending(S) ==
    IF S = {} THEN <<>>
    ELSE LET m == CHOOSE x \in S : \A y \in S : x >= y
         IN <<m>> \o Ascending_descending(S \ {m})

\* the ids of S in ascending order
RECURSIVE Ascending(_)
Ascending(S) ==
    IF S = {} THEN <<>>
    ELSE LET m == CHOOSE x \in S : \A y \in S : x <= y
         IN <<m>> \o Ascending(S \ {m})

\* the last n entries of a sequence
LastN(s, n) == IF Len(s) <= n THEN s ELSE SubSeq(s, Len(s) - n + 1, Len(s))

\* the first n entries of a sequence
FirstN(s, n) == IF Len(s) <= n THEN s ELSE SubSeq(s, 1, n)

HistoryLimit == 15
ListLimit == 100

\* get_messages_by_conversation: SELECT id, user_id, role, content, conversation_id
\* ... WHERE conversation_id = cid ORDER BY id ASC LIMIT n
ListForConversation(ms, cid, n) ==
    LET ids == FirstN(Ascending({m \in DOMAIN ms : ms[m].conversation_id = cid}), n)
    IN [i \in 1..Len(ids) |->
          [id |-> ids[i], user_id |-> ms[ids[i]].user_id, role |-> ms[ids[i]].role,
           content |-> ms[ids[i]].content, conversation_id |-> cid]]

\* SELECT role, content ... WHERE user_id = u AND conversation_id = cid
\* ORDER BY id DESC LIMIT n, then history[::-1]
ChatHistory(ms, u, cid, n) ==
    LET ids == LastN(Ascending({m \in DOMAIN ms :
                        ms[m].user_id = u /\ ms[m].conversation_id = cid}), n)
    IN [i \in 1..Len(ids) |-> [role |-> ms[ids[i]].role, content |-> ms[ids[i]].content]]

(***************************************************************************)
(* Requests.  A slot serves one request at a time; the registry functions  *)
(* the contract names are callable on their own, the others through their  *)
(* routes.                                                                 *)
(***************************************************************************)
Requests ==
    [op : {"ensure_active", "chat", "upload"}, user : Users, cid : {0}, label : {""}]
    \cup [op : {"create"}, user : Users, cid : {0}, label : Labels]
    \cup [op : {"switch", "switch_chat"}, user : Users, cid : ConvIds, label : {""}]
    \cup [op : {"rename", "rename_if_default"}, user : {""}, cid : ConvIds, label : Labels]
    \cup [op : {"archive", "delete_chat"}, user : {""}, cid : ConvIds, label : {""}]

RequestsOf(ops) == {r \in Requests : r.op \in ops}

\* ChatRequest: a chat request may carry a conversation_id (cid; 0: none)
ChatRequests == [op : {"chat"}, user : Users, cid : {0} \cup ConvIds, label : {""}]

\* the first statement of each handler
Entry(op) ==
    CASE op \in {"ensure_active", "chat", "upload"} -> "ea_get"
      [] op = "create" -> "cr_update"
      [] op = "switch" -> "sw_deactivate"
      [] op = "switch_chat" -> "sc_check"
      [] op = "rename" -> "rn_check"
      [] op = "rename_if_default" -> "rd_update"
      [] op = "archive" -> "ar_check"
      [] op = "delete_chat" -> "dl_check"

\* messages a request may still insert
Needs(op) == IF op \in {"chat", "upload"} THEN 2 ELSE 0

\* the handler goes on to statement l; conn: whether this step's connection or
\* statement succeeded
Goto(p, l, newloc, conn) ==
    /\ pc' = [pc EXCEPT ![p] = l]
    /\ loc' = [loc EXCEPT ![p] = [newloc EXCEPT !.conn = loc[p].conn /\ conn]]
    /\ UNCHANGED <<req, cascade>>

\* the handler returns status (and, where it returns one, a conversation id)
Finish(p, newloc, status, conv, conn) ==
    /\ pc' = [pc EXCEPT ![p] = "done"]
    /\ loc' = [loc EXCEPT ![p] =
                 [newloc EXCEPT !.id = conv, !.status = status,
                                !.conn = loc[p].conn /\ conn, !.tx = NoTx]]
    /\ UNCHANGED <<req, cascade>>

Complete(p, status, conv, conn) == Finish(p, loc[p], status, conv, conn)

UnchangedDb == UNCHANGED <<convs, nextConvId, msgs, nextMsgId, now, userTitled, cascade>>

\* messages the requests being served may still insert
InFlight == Needs(req["p1"].op) + Needs(req["p2"].op)

StartWithin(p, r, budget) ==
    /\ pc[p] = "idle"
    /\ nextMsgId + InFlight + Needs(r.op) <= budget + 1
    /\ pc' = [pc EXCEPT ![p] = Entry(r.op)]
    /\ req' = [req EXCEPT ![p] = r]
    /\ loc' = [loc EXCEPT ![p].first =
                 r.op \in {"chat", "upload"} /\ \A c \in DOMAIN convs : convs[c].user_id # r.user]
    /\ UnchangedDb

Start(p, r) == StartWithin(p, r, MaxMsgs)

\* the response is delivered and the slot is free again
Respond(p) ==
    /\ pc[p] = "done"
    /\ pc' = [pc EXCEPT ![p] = "idle"]
    /\ req' = [req EXCEPT ![p] = NoReq]
    /\ loc' = [loc EXCEPT ![p] = NoLoc]
    /\ UnchangedDb

(***************************************************************************)
(* ensure_active_conversation / get_active_conversation / create           *)
(***************************************************************************)
\* mutant: /chat and /upload go on without the `if not active_conv` check
ReturnConversation_unchecked(p, id, label, conn) ==
    CASE req[p].op = "ensure_active" ->
            Complete(p, IF id = 0 THEN "None" ELSE "conversation", id, conn)
      [] req[p].op = "create" ->
            Complete(p, IF id = 0 THEN "500" ELSE "200", id, conn)
      [] req[p].op = "chat" ->
            Goto(p, "ch_user", [loc[p] EXCEPT !.id = id, !.label = label], conn)
      [] req[p].op = "upload" ->
            Goto(p, "up_context", [loc[p] EXCEPT !.id = id, !.label = label], conn)

\* what the caller of ensure_active_conversation / create_conversation does
\* with the conversation returned (id 0: None)
ReturnConversation(p, id, label, conn) ==
    CASE req[p].op = "ensure_active" ->
            Complete(p, IF id = 0 THEN "None" ELSE "conversation", id, conn)
      [] req[p].op = "create" ->
            Complete(p, IF id = 0 THEN "500" ELSE "200", id, conn)
      [] req[p].op = "chat" ->
            IF id = 0 THEN Complete(p, "503", 0, conn)
            ELSE Goto(p, "ch_user", [loc[p] EXCEPT !.id = id, !.label = label], conn)
      [] req[p].op = "upload" ->
            IF id = 0 THEN Complete(p, "503", 0, conn)
            ELSE Goto(p, "up_context", [loc[p] EXCEPT !.id = id, !.label = label], conn)

\* the label create_conversation is called with
CreateLabel(p) == IF req[p].op = "create" THEN req[p].label ELSE DefaultLabel

\* get_active_conversation, and ensure_active_conversation's `if not active`
get_active_conversation(p) ==
    /\ pc[p] = "ea_get"
    /\ UnchangedDb
    /\ \E conn \in BOOLEAN :
          LET found == IF conn THEN MostRecentActive(convs, req[p].user) ELSE {}
          IN IF found = {}
             THEN Goto(p, "cr_update", loc[p], conn)
             ELSE \E c \in found : ReturnConversation(p, c, convs[c].label, conn)

create_conversation_update(p) ==
    /\ pc[p] = "cr_update"
    /\ UNCHANGED <<nextConvId, msgs, nextMsgId, now, userTitled>>
    /\ \E conn \in BOOLEAN :
          IF conn
          THEN /\ convs' = DeactivateActive(convs, req[p].user, now)
               /\ Goto(p, "cr_insert",
                       [loc[p] EXCEPT !.tx = Uncommitted(convs, convs', req[p].user)], conn)
          ELSE /\ UNCHANGED convs
               /\ ReturnConversation(p, 0, "", conn)

create_conversation_insert(p) ==
    /\ pc[p] = "cr_insert"
    /\ UNCHANGED <<msgs, nextMsgId, now, userTitled>>
    /\ \E conn \in BOOLEAN :
          IF conn
          THEN /\ nextConvId <= MaxConvs
               /\ convs' = InsertConversation(convs, nextConvId, req[p].user,
                                              CreateLabel(p), now)
               /\ nextConvId' = nextConvId + 1
               /\ Goto(p, "cr_select", [loc[p] EXCEPT !.id = nextConvId, !.tx = NoTx], conn)
          ELSE /\ \E undone \in BOOLEAN : convs' = Rollback(convs, req[p].user, loc[p].tx, undone)
               /\ UNCHANGED nextConvId
               /\ ReturnConversation(p, 0, "", conn)

create_conversation_select(p) ==
    /\ pc[p] = "cr_select"
    /\ UnchangedDb
    /\ \E conn \in BOOLEAN :
          IF conn /\ loc[p].id \in DOMAIN convs
          THEN ReturnConversation(p, loc[p].id, convs[loc[p].id].label, conn)
          ELSE ReturnConversation(p, 0, "", conn)

(***************************************************************************)
(* switch_chat (route) / switch_conversation                               *)
(***************************************************************************)
\* what the caller of a registry function returning a boolean does with it:
\* the function's own callers see it, a route answers 200 or 500
ReturnBool(p, direct, ok, conn) ==
    IF req[p].op \in direct
    THEN Complete(p, IF ok THEN "True" ELSE "False", req[p].cid, conn)
    ELSE Complete(p, IF ok THEN "200" ELSE "500", req[p].cid, conn)

\* mutant: the route without its ownership check
switch_chat_unchecked(p) ==
    /\ pc[p] = "sc_check"
    /\ UnchangedDb
    /\ \E conn \in BOOLEAN :
          IF ~conn \/ req[p].cid \notin DOMAIN convs
          THEN Complete(p, "404", req[p].cid, conn)
          ELSE Goto(p, "sw_deactivate", loc[p], conn)

switch_chat(p) ==
    /\ pc[p] = "sc_check"
    /\ UnchangedDb
    /\ \E conn \in BOOLEAN :
          IF ~conn \/ req[p].cid \notin DOMAIN convs
          THEN Complete(p, "404", req[p].cid, conn)
          ELSE IF convs[req[p].cid].user_id # req[p].user
               THEN Complete(p, "403", req[p].cid, conn)
               ELSE Goto(p, "sw_deactivate", loc[p], conn)

switch_conversation_deactivate(p) ==
    /\ pc[p] = "sw_deactivate"
    /\ UNCHANGED <<nextConvId, msgs, nextMsgId, now, userTitled>>
    /\ \E conn \in BOOLEAN :
          IF conn
          THEN /\ convs' = DeactivateAll(convs, req[p].user, now)
               /\ Goto(p, "sw_activate",
                       [loc[p] EXCEPT !.tx = Uncommitted(convs, convs', req[p].user)], conn)
          ELSE /\ UNCHANGED convs
               /\ ReturnBool(p, {"switch"}, FALSE, conn)

switch_conversation_activate(p) ==
    /\ pc[p] = "sw_activate"
    /\ UNCHANGED <<nextConvId, msgs, nextMsgId, now, userTitled>>
    /\ \E conn \in BOOLEAN :
          IF conn
          THEN /\ convs' = ActivateOwned(convs, req[p].cid, req[p].user, now)
               /\ ReturnBool(p, {"switch"}, RowCount(convs, convs') > 0, conn)
          ELSE /\ \E undone \in BOOLEAN : convs' = Rollback(convs, req[p].user, loc[p].tx, undone)
               /\ ReturnBool(p, {"switch"}, FALSE, conn)

(***************************************************************************)
(* rename_conversation (route) / update_conversation_label                 *)
(***************************************************************************)
\* get_conversation_by_id as the routes use it: 404 unless the row is found
RouteCheck(p, here, next) ==
    /\ pc[p] = here
    /\ UnchangedDb
    /\ \E conn \in BOOLEAN :
          IF ~conn \/ req[p].cid \notin DOMAIN convs
          THEN Complete(p, "404", req[p].cid, conn)
          ELSE Goto(p, next, loc[p], conn)

rename_conversation(p) == RouteCheck(p, "rn_check", "rn_update")

update_conversation_label(p) ==
    /\ pc[p] = "rn_update"
    /\ UNCHANGED <<nextConvId, msgs, nextMsgId, now>>
    /\ \E conn \in BOOLEAN :
          IF conn
          THEN /\ convs' = SetLabel(convs, req[p].cid, req[p].label, now)
               /\ userTitled' = IF RowCount(convs, convs') > 0
                                THEN userTitled \cup {req[p].cid} ELSE userTitled
               /\ ReturnBool(p, {}, RowCount(convs, convs') > 0, conn)
          ELSE /\ UNCHANGED <<convs, userTitled>>
               /\ ReturnBool(p, {}, FALSE, conn)

(***************************************************************************)
(* update_label_if_default                                                 *)
(***************************************************************************)
update_label_if_default(p) ==
    /\ pc[p] = "rd_update"
    /\ UNCHANGED <<nextConvId, msgs, nextMsgId, now>>
    /\ \E conn \in BOOLEAN :
          IF conn
          THEN /\ convs' = SetLabelIfDefault(convs, req[p].cid, req[p].label, now)
               /\ userTitled' = IF convs' # convs
                                THEN userTitled \ {req[p].cid} ELSE userTitled
               /\ ReturnBool(p, {"rename_if_default"}, RowCount(convs, convs') > 0, conn)
          ELSE /\ UNCHANGED <<convs, userTitled>>
               /\ ReturnBool(p, {"rename_if_default"}, FALSE, conn)

(***************************************************************************)
(* archive_chat / admin_archive_chat (routes) / archive_conversation       *)
(***************************************************************************)
archive_chat(p) == RouteCheck(p, "ar_check", "ar_update")

archive_conversation(p) ==
    /\ pc[p] = "ar_update"
    /\ UNCHANGED <<nextConvId, msgs, nextMsgId, now, userTitled>>
    /\ \E conn \in BOOLEAN :
          IF conn
          THEN /\ convs' = SetInactive(convs, req[p].cid, now)
               /\ ReturnBool(p, {}, RowCount(convs, convs') > 0, conn)
          ELSE /\ UNCHANGED convs
               /\ ReturnBool(p, {}, FALSE, conn)

(***************************************************************************)
(* delete_chat / admin_delete_chat (routes)                                *)
(***************************************************************************)
delete_chat(p) == RouteCheck(p, "dl_check", "dl_messages")

delete_messages_by_conversation(p) ==
    /\ pc[p] = "dl_messages"
    /\ UNCHANGED <<convs, nextConvId, nextMsgId, now, userTitled>>
    /\ \E conn \in BOOLEAN :
          /\ msgs' = IF conn THEN DeleteMessagesOf(msgs, req[p].cid) ELSE msgs
          /\ Goto(p, "dl_conversation", loc[p], conn)

delete_conversation(p) ==
    /\ pc[p] = "dl_conversation"
    /\ UNCHANGED <<nextConvId, nextMsgId, now>>
    /\ \E conn \in BOOLEAN :
          IF conn
          THEN /\ convs' = DeleteRow(convs, req[p].cid)
               /\ msgs' = IF cascade THEN DeleteMessagesOf(msgs, req[p].cid) ELSE msgs
               /\ userTitled' = userTitled \ {req[p].cid}
               /\ ReturnBool(p, {}, RowCount(convs, convs') > 0, conn)
          ELSE /\ UNCHANGED <<convs, msgs, userTitled>>
               /\ ReturnBool(p, {}, FALSE, conn)

(***************************************************************************)
(* store_message and the /chat and /upload handlers                        *)
(***************************************************************************)
\* store_message: one INSERT, skipped (returns None) without a connection or when
\* the INSERT raises (a foreign key that names no conversation)
store_message(conn, u, role, content, cid) ==
    IF conn /\ (cascade => cid \in DOMAIN convs)
    THEN /\ msgs' = InsertMessage(msgs, nextMsgId, u, role, content, cid)
         /\ nextMsgId' = nextMsgId + 1
    ELSE UNCHANGED <<msgs, nextMsgId>>

\* mutant: the turn gives up (500) when the user message could not be stored
chat_store_user_aborting(p) ==
    /\ pc[p] = "ch_user"
    /\ UNCHANGED <<convs, nextConvId, now, userTitled>>
    /\ \E conn \in BOOLEAN :
          /\ store_message(conn, req[p].user, "user", UserMessage, loc[p].id)
          /\ IF msgs' = msgs
             THEN Complete(p, "500", loc[p].id, conn)
             ELSE Goto(p, "ch_history", loc[p], conn)

\* uid: the id store_message returned for the user message (0: None)
chat_store_user(p) ==
    /\ pc[p] = "ch_user"
    /\ UNCHANGED <<convs, nextConvId, now, userTitled>>
    /\ \E conn \in BOOLEAN :
          /\ store_message(conn, req[p].user, "user", UserMessage, loc[p].id)
          /\ Goto(p, "ch_history",
                  [loc[p] EXCEPT !.uid = IF msgs' # msgs THEN nextMsgId ELSE 0], conn)

chat_get_history(p) ==
    /\ pc[p] = "ch_history"
    /\ UnchangedDb
    /\ \E conn \in BOOLEAN :
          Goto(p, "ch_ai", [loc[p] EXCEPT !.hist =
                IF conn THEN ChatHistory(msgs, req[p].user, loc[p].id, HistoryLimit)
                ELSE <<>>], conn)

\* has_image: the history holds a message naming an uploaded image whose file
\* exists and can be read
HasImage(hist, readable) ==
    readable /\ \E i \in 1..Len(hist) : hist[i].content = ImageContext

\* the system instruction
SystemContent == "You are Chat-Bot"
\* the text part of the block built for an image, and the block (text part and
\* image_url part)
ImageText == "[User uploaded image: photo.png]"
ImageBlock == "[User uploaded image: photo.png] + image_url"

\* processed_messages: the history, an image message whose file can be read replaced
\* by its block, then the current user message; format tells a plain string from
\* a list of typed parts
Processed(hist, message, readable) ==
    [i \in 1..Len(hist) |->
        IF hist[i].content = ImageContext /\ readable
        THEN [role |-> "user", content |-> ImageBlock, format |-> "parts"]
        ELSE [role |-> hist[i].role, content |-> hist[i].content, format |-> "string"]]
    \o <<[role |-> "user", content |-> message, format |-> "string"]>>

\* final_messages: the system message, then the processed messages, the plain ones
\* made lists of one text part when there is an image
FinalMessages(processed, image) ==
    <<[role |-> "system", content |-> SystemContent, format |-> "string"]>>
    \o [i \in 1..Len(processed) |->
           IF image THEN [processed[i] EXCEPT !.format = "parts"] ELSE processed[i]]

\* text_messages: the system message, then the processed messages, a block replaced
\* by its text part
TextMessages(processed) ==
    <<[role |-> "system", content |-> SystemContent, format |-> "string"]>>
    \o [i \in 1..Len(processed) |->
           IF processed[i].format = "parts"
           THEN [role |-> processed[i].role, content |-> ImageText, format |-> "string"]
           ELSE processed[i]]

\* the requests get_ai_response has sent: final_messages to the vision models (when
\* there is an image), text_messages to the text model (when it was asked)
Sent(hist, message, readable, calls) ==
    LET processed == Processed(hist, message, readable)
        image == HasImage(hist, readable)
    IN [vision |-> IF image THEN FinalMessages(processed, image) ELSE <<>>,
        text |-> IF calls[Len(calls)].model = "text" THEN TextMessages(processed) ELSE <<>>]

\* the completion calls get_ai_response makes, in order, each with the message of
\* the exception it raised ("" when it returned a text): the vision models while
\* none has answered, then the text model
Calls(image, v1, v2, t) ==
    LET vision == IF ~image THEN <<>>
                  ELSE IF v1 = "" THEN <<[model |-> "vision1", error |-> v1]>>
                  ELSE <<[model |-> "vision1", error |-> v1],
                         [model |-> "vision2", error |-> v2]>>
    IN IF vision # <<>> /\ vision[Len(vision)].error = ""
       THEN vision
       ELSE Append(vision, [model |-> "text", error |-> t])

\* mutant: the text model's exception is not caught
get_ai_response_uncaught(image, calls) ==
    LET last == calls[Len(calls)]
    IN IF last.error # "" THEN "raised"
       ELSE IF last.model # "text" THEN "vision reply"
       ELSE IF image THEN FallbackNote ELSE "reply"

\* get_ai_response: the text of the first vision model that answers, else the text
\* model's (with the fallback note when there was an image), else the error text
get_ai_response(image, calls) ==
    LET last == calls[Len(calls)]
    IN IF last.error # "" THEN ErrorText(last.error)
       ELSE IF last.model # "text" THEN "vision reply"
       ELSE IF image THEN FallbackNote ELSE "reply"

\* mutant: the turn ends (500) when the adapter has no model left to ask
chat_get_ai_response_fatal(p) ==
    /\ pc[p] = "ch_ai"
    /\ UnchangedDb
    /\ \E readable \in {HasImage(loc[p].hist, TRUE), FALSE} :
       \E v1, v2 \in IF readable THEN {"", VisionFailure} ELSE {""} :
       \E t \in {"", TextFailure} :
          LET image == HasImage(loc[p].hist, readable)
              calls == Calls(image, v1, v2, t)
              r == get_ai_response(image, calls)
              l == [loc[p] EXCEPT !.reply = r, !.image = image, !.calls = calls,
                                  !.sent = Sent(loc[p].hist, UserMessage, readable, calls)]
          IN IF calls[Len(calls)].error = ""
             THEN Goto(p, "ch_reply", l, TRUE)
             ELSE Finish(p, l, "500", loc[p].id, TRUE)

\* ai_reply = get_ai_response(request.message, history); an exception would reach
\* the handler's `except Exception` (500)
chat_get_ai_response(p) ==
    /\ pc[p] = "ch_ai"
    /\ UnchangedDb
    /\ \E readable \in {HasImage(loc[p].hist, TRUE), FALSE} :
       \E v1, v2 \in IF readable THEN {"", VisionFailure} ELSE {""} :
       \E t \in {"", TextFailure} :
          LET image == HasImage(loc[p].hist, readable)
              calls == Calls(image, v1, v2, t)
              r == get_ai_response(image, calls)
              l == [loc[p] EXCEPT !.reply = r, !.image = image, !.calls = calls,
                                  !.sent = Sent(loc[p].hist, UserMessage, readable, calls)]
          IN IF r \in AIReplies
             THEN Goto(p, "ch_reply", l, TRUE)
             ELSE Finish(p, l, "500", loc[p].id, TRUE)

\* mutant: the reply is stored under the conversation_id the request carries
chat_store_reply_supplied(p) ==
    /\ pc[p] = "ch_reply"
    /\ UNCHANGED <<convs, nextConvId, now, userTitled>>
    /\ \E conn \in BOOLEAN :
          /\ store_message(conn, req[p].user, "assistant", loc[p].reply,
                           IF req[p].cid # 0 THEN req[p].cid ELSE loc[p].id)
          /\ IF loc[p].label = DefaultLabel
             THEN Goto(p, "ch_label", loc[p], conn)
             ELSE Complete(p, "200", loc[p].id, conn)

\* mutant: the reply is stored under the conversation active when it is stored
chat_store_reply_reresolved(p) ==
    /\ pc[p] = "ch_reply"
    /\ UNCHANGED <<convs, nextConvId, now, userTitled>>
    /\ \E conn \in BOOLEAN :
       \E c \in IF ActiveOf(convs, req[p].user) = {} THEN {loc[p].id}
                ELSE ActiveOf(convs, req[p].user) :
          /\ store_message(conn, req[p].user, "assistant", loc[p].reply, c)
          /\ IF loc[p].label = DefaultLabel
             THEN Goto(p, "ch_label", loc[p], conn)
             ELSE Complete(p, "200", loc[p].id, conn)

chat_store_reply(p) ==
    /\ pc[p] = "ch_reply"
    /\ UNCHANGED <<convs, nextConvId, now, userTitled>>
    /\ \E conn \in BOOLEAN :
          /\ store_message(conn, req[p].user, "assistant", loc[p].reply, loc[p].id)
          /\ IF loc[p].label = DefaultLabel
             THEN Goto(p, "ch_label", loc[p], conn)
             ELSE Complete(p, "200", loc[p].id, conn)

\* generate_chat_label, then update_label_if_default
chat_auto_label(p) ==
    /\ pc[p] = "ch_label"
    /\ UNCHANGED <<nextConvId, msgs, nextMsgId, now>>
    /\ \E conn \in BOOLEAN, t \in Titles :
          /\ IF conn
             THEN /\ convs' = SetLabelIfDefault(convs, loc[p].id, t, now)
                  /\ userTitled' = IF convs' # convs
                                   THEN userTitled \ {loc[p].id} ELSE userTitled
             ELSE UNCHANGED <<convs, userTitled>>
          /\ Finish(p, [loc[p] EXCEPT !.title = t], "200", loc[p].id, conn)

\* the context message of an image or of a file whose text was extracted (none
\* otherwise)
upload_store_context(p) ==
    /\ pc[p] = "up_context"
    /\ UNCHANGED <<convs, nextConvId, now, userTitled>>
    /\ \E conn \in BOOLEAN, kind \in {"none", "text", "image"} :
          /\ IF kind # "none"
             THEN store_message(conn, req[p].user, "user",
                                IF kind = "image" THEN ImageContext ELSE "BACKGROUND_DATA",
                                loc[p].id)
             ELSE UNCHANGED <<msgs, nextMsgId>>
          /\ Goto(p, "up_log", loc[p], conn \/ kind = "none")

upload_store_log(p) ==
    /\ pc[p] = "up_log"
    /\ UNCHANGED <<convs, nextConvId, now, userTitled>>
    /\ \E conn \in BOOLEAN :
          /\ store_message(conn, req[p].user, "user", "[File Uploaded]", loc[p].id)
          /\ Complete(p, "200", loc[p].id, conn)

(***************************************************************************)
(* Environment: the datastore clock advances.                              *)
(***************************************************************************)
Tick ==
    /\ now < MaxTime
    /\ now' = now + 1
    /\ UNCHANGED <<convs, nextConvId, msgs, nextMsgId, pc, req, loc, userTitled, cascade>>

(***************************************************************************)
(* Specifications.                                                         *)
(***************************************************************************)
Init ==
    /\ convs = <<>>
    /\ nextConvId = 1
    /\ msgs = <<>>
    /\ nextMsgId = 1
    /\ now = 0
    /\ pc = [p \in Procs |-> "idle"]
    /\ req = [p \in Procs |-> NoReq]
    /\ loc = [p \in Procs |-> NoLoc]
    /\ userTitled = {}
    /\ cascade = FALSE

\* the same, under either schema (for the specifications that delete conversations
\* which hold messages, the only statements the schema matters to)
InitSchema ==
    /\ convs = <<>>
    /\ nextConvId = 1
    /\ msgs = <<>>
    /\ nextMsgId = 1
    /\ now = 0
    /\ pc = [p \in Procs |-> "idle"]
    /\ req = [p \in Procs |-> NoReq]
    /\ loc = [p \in Procs |-> NoLoc]
    /\ userTitled = {}
    /\ cascade \in BOOLEAN

Idle == \A q \in Procs : pc[q] = "idle"

\* Calls on the registry made one after the other: a call returns before the
\* next one starts.
RegistryOps == {"ensure_active", "create", "switch", "switch_chat", "archive", "delete_chat"}

NextSeq ==
    \/ \E r \in RequestsOf(RegistryOps) : Idle /\ Start("p1", r)
    \/ \E p \in Procs :
          \/ get_active_conversation(p)
          \/ create_conversation_update(p)
          \/ create_conversation_insert(p)
          \/ create_conversation_select(p)
          \/ switch_chat(p)
          \/ switch_conversation_deactivate(p)
          \/ switch_conversation_activate(p)
          \/ archive_chat(p)
          \/ archive_conversation(p)
          \/ delete_chat(p)
          \/ delete_messages_by_conversation(p)
          \/ delete_conversation(p)
          \/ Respond(p)
    \/ Tick

SpecSeq == Init /\ [][NextSeq]_vars

\* Calls that write labels, made one after the other.
LabelOps == {"create", "rename", "rename_if_default"}

NextLabel ==
    \/ \E r \in RequestsOf(LabelOps) : Idle /\ Start("p1", r)
    \/ \E p \in Procs :
          \/ create_conversation_update(p)
          \/ create_conversation_insert(p)
          \/ create_conversation_select(p)
          \/ rename_conversation(p)
          \/ update_conversation_label(p)
          \/ update_label_if_default(p)
          \/ Respond(p)
    \/ Tick

SpecLabel == Init /\ [][NextLabel]_vars

\* Concurrent requests that set the active conversation: the statements of
\* two handlers interleave in any order.
RaceOps == {"ensure_active", "create", "switch"}

NextRace ==
    \/ \E p \in Procs, r \in RequestsOf(RaceOps) : Start(p, r)
    \/ \E p \in Procs :
          \/ get_active_conversation(p)
          \/ create_conversation_update(p)
          \/ create_conversation_insert(p)
          \/ create_conversation_select(p)
          \/ switch_conversation_deactivate(p)
          \/ switch_conversation_activate(p)
          \/ Respond(p)
    \/ Tick

SpecRace == Init /\ [][NextRace]_vars

\* Chat turns (one after the other) concurrent with renames (one after the
\* other) of the conversations.
NextTitle ==
    \/ \E r \in RequestsOf({"chat"}) : Start("p1", r)
    \/ \E r \in RequestsOf({"rename"}) : Start("p2", r)
    \/ \E p \in Procs :
          \/ get_active_conversation(p)
          \/ create_conversation_update(p)
          \/ create_conversation_insert(p)
          \/ create_conversation_select(p)
          \/ chat_store_user(p)
          \/ chat_get_history(p)
          \/ chat_get_ai_response(p)
          \/ chat_store_reply(p)
          \/ chat_auto_label(p)
          \/ rename_conversation(p)
          \/ update_conversation_label(p)
          \/ Respond(p)
    \/ Tick

SpecTitle == Init /\ [][NextTitle]_vars

\* Chat turns, uploads and deletes made one after the other.
TurnOps == {"chat", "upload", "delete_chat"}

NextTurn ==
    \/ \E r \in RequestsOf(TurnOps) : Idle /\ Start("p1", r)
    \/ \E p \in Procs :
          \/ get_active_conversation(p)
          \/ create_conversation_update(p)
          \/ create_conversation_insert(p)
          \/ create_conversation_select(p)
          \/ chat_store_user(p)
          \/ chat_get_history(p)
          \/ chat_get_ai_response(p)
          \/ chat_store_reply(p)
          \/ chat_auto_label(p)
          \/ upload_store_context(p)
          \/ upload_store_log(p)
          \/ delete_chat(p)
          \/ delete_messages_by_conversation(p)
          \/ delete_conversation(p)
          \/ Respond(p)
    \/ Tick

SpecTurn == InitSchema /\ [][NextTurn]_vars

\* Chat turns of one user that run at the same time, within one tick of the
\* datastore clock (get_active_conversation may then return any active row).
NextTurns ==
    \/ \E p \in Procs, r \in RequestsOf({"chat"}) :
          r.user = "u1" /\ StartWithin(p, r, MaxTurnMsgs)
    \/ \E p \in Procs :
          \/ get_active_conversation(p)
          \/ create_conversation_update(p)
          \/ create_conversation_insert(p)
          \/ create_conversation_select(p)
          \/ chat_store_user(p)
          \/ chat_get_history(p)
          \/ chat_get_ai_response(p)
          \/ chat_store_reply(p)
          \/ chat_auto_label(p)
          \/ Respond(p)

SpecTurns == Init /\ [][NextTurns]_vars

\* Chat turns and uploads (one after the other) concurrent with deletes (one
\* after the other) of the conversations, under either schema.
NextDelete ==
    \/ \E r \in RequestsOf({"chat", "upload"}) : Start("p1", r)
    \/ \E r \in RequestsOf({"delete_chat"}) : Start("p2", r)
    \/ \E p \in Procs :
          \/ get_active_conversation(p)
          \/ create_conversation_update(p)
          \/ create_conversation_insert(p)
          \/ create_conversation_select(p)
          \/ chat_store_user(p)
          \/ chat_get_history(p)
          \/ chat_get_ai_response(p)
          \/ chat_store_reply(p)
          \/ chat_auto_label(p)
          \/ upload_store_context(p)
          \/ upload_store_log(p)
          \/ delete_chat(p)
          \/ delete_messages_by_conversation(p)
          \/ delete_conversation(p)
          \/ Respond(p)

SpecDelete == InitSchema /\ [][NextDelete]_vars

\* Uploads and chat turns of one user, made one after the other.
NextVision ==
    \/ \E r \in RequestsOf({"chat", "upload"}) :
          Idle /\ r.user = "u1" /\ StartWithin("p1", r, MaxTurnMsgs)
    \/ \E p \in Procs :
          \/ get_active_conversation(p)
          \/ create_conversation_update(p)
          \/ create_conversation_insert(p)
          \/ create_conversation_select(p)
          \/ chat_store_user(p)
          \/ chat_get_history(p)
          \/ chat_get_ai_response(p)
          \/ chat_store_reply(p)
          \/ chat_auto_label(p)
          \/ upload_store_context(p)
          \/ upload_store_log(p)
          \/ Respond(p)

SpecVision == Init /\ [][NextVision]_vars

\* Chat turns that carry a conversation_id, made one after the other.
NextSupplied ==
    \/ \E r \in ChatRequests : Idle /\ StartWithin("p1", r, MaxTurnMsgs)
    \/ \E p \in Procs :
          \/ get_active_conversation(p)
          \/ create_conversation_update(p)
          \/ create_conversation_insert(p)
          \/ create_conversation_select(p)
          \/ chat_store_user(p)
          \/ chat_get_history(p)
          \/ chat_get_ai_response(p)
          \/ chat_store_reply(p)
          \/ chat_auto_label(p)
          \/ Respond(p)

SpecSupplied == Init /\ [][NextSupplied]_vars

\* Chat turns of a user (one after the other) concurrent with requests that change
\* the active conversation (one after the other).
NextAwait ==
    \/ \E r \in RequestsOf({"chat"}) : r.user = "u1" /\ Start("p1", r)
    \/ \E r \in RequestsOf({"create", "switch", "archive"}) : Start("p2", r)
    \/ \E p \in Procs :
          \/ get_active_conversation(p)
          \/ create_conversation_update(p)
          \/ create_conversation_insert(p)
          \/ create_conversation_select(p)
          \/ switch_conversation_deactivate(p)
          \/ switch_conversation_activate(p)
          \/ archive_chat(p)
          \/ archive_conversation(p)
          \/ chat_store_user(p)
          \/ chat_get_history(p)
          \/ chat_get_ai_response(p)
          \/ chat_store_reply(p)
          \/ chat_auto_label(p)
          \/ Respond(p)

SpecAwait == Init /\ [][NextAwait]_vars

\* The operations made on behalf of a user, by either user, one after the other.
UserOps == {"ensure_active", "create", "switch", "chat", "upload"}

NextFrame ==
    \/ \E r \in RequestsOf(UserOps) : Idle /\ Start("p1", r)
    \/ \E p \in Procs :
          \/ get_active_conversation(p)
          \/ create_conversation_update(p)
          \/ create_conversation_insert(p)
          \/ create_conversation_select(p)
          \/ switch_conversation_deactivate(p)
          \/ switch_conversation_activate(p)
          \/ chat_store_user(p)
          \/ chat_get_history(p)
          \/ chat_get_ai_response(p)
          \/ chat_store_reply(p)
          \/ chat_auto_label(p)
          \/ upload_store_context(p)
          \/ upload_store_log(p)
          \/ Respond(p)
    \/ Tick

SpecFrame == Init /\ [][NextFrame]_vars

(***************************************************************************)
(* Properties.                                                             *)
(***************************************************************************)
ConvsOf(u) == {c \in DOMAIN convs : convs[c].user_id = u}
Flags == [c \in DOMAIN convs |-> convs[c].is_active]
\* slot p takes this step
Moves(p) == pc'[p] # pc[p]
Returned(p, op, status) == pc[p] = "done" /\ req[p].op = op /\ loc[p].status = status

\* C1: after any sequence of create, switch, archive, delete and ensure_active
\* calls made one after the other, every user has at most one active conversation.
C1_AtMostOneActive == \A u \in Users : Cardinality(ActiveOf(convs, u)) <= 1

C1_Witness ==
    \E p \in Procs :
        /\ Returned(p, "create", "200")
        /\ Cardinality(ConvsOf(req[p].user)) = 2
        /\ Cardinality(ActiveOf(convs, req[p].user)) = 1

\* C2: under any interleaving of concurrent ensure_active, create and switch
\* requests, no user ever has two active conversations.
C2_AtMostOneActiveConcurrent ==
    \A u \in Users : \A c, d \in ActiveOf(convs, u) : c = d

\* C3: switch_conversation(U, id) for a conversation owned by another user returns
\* False, and when it has returned (its statements committed) the active flag of
\* every conversation is what it was when the call was made.
C3_ForeignSwitchChangesNothing ==
    [][\A p \in Procs :
        (/\ req[p].op = "switch"
         /\ pc[p] = "sw_activate"
         /\ Moves(p)
         /\ req[p].cid \in DOMAIN convs
         /\ convs[req[p].cid].user_id # req[p].user)
        => LET old == loc[p].tx.old
           IN /\ loc'[p].status = "False"
              /\ Flags' = [c \in DOMAIN convs |->
                             IF c \in DOMAIN old THEN old[c].is_active
                             ELSE convs[c].is_active]]_vars

\* C4: when switch(U, c) has returned success, c is owned by U and active and every
\* other conversation of U is inactive; and at no instant, between the statements of
\* a switch or after it, are two conversations of a user both active.
C4_SwitchLeavesOnlyTargetActive ==
    /\ \A p \in Procs :
          (pc[p] = "done" /\ req[p].op \in {"switch", "switch_chat"}
              /\ loc[p].status \in {"True", "200"})
          => /\ req[p].cid \in ConvsOf(req[p].user)
             /\ ActiveOf(convs, req[p].user) = {req[p].cid}
    /\ \A a, b \in DOMAIN convs :
          (a # b /\ convs[a].user_id = convs[b].user_id)
          => ~(convs[a].is_active /\ convs[b].is_active)

C4_Witness ==
    \E p \in Procs :
        /\ Returned(p, "switch", "True")
        /\ \E b \in ConvsOf(req[p].user) : b # req[p].cid /\ ~convs[b].is_active

\* C5: the switch route answers 404 when the conversation does not exist and 403
\* when it is owned by another user; in both cases it returns at once, without
\* calling switch_conversation and without changing any row.
C5_SwitchRouteRejects ==
    [][\A p \in Procs :
        (pc[p] = "sc_check" /\ Moves(p))
        => /\ req[p].cid \notin DOMAIN convs
                => pc'[p] = "done" /\ loc'[p].status = "404" /\ convs' = convs
           /\ (req[p].cid \in DOMAIN convs /\ convs[req[p].cid].user_id # req[p].user)
                => /\ pc'[p] = "done" /\ convs' = convs
                   /\ loc'[p].conn => loc'[p].status = "403"]_vars

C5_Witness ==
    \E p \in Procs :
        /\ Returned(p, "switch_chat", "403")
        /\ ActiveOf(convs, req[p].user) # {}
        /\ convs[req[p].cid].is_active

\* C6: when create(U, label) has returned a conversation, that row is owned by U,
\* carries the label passed, is active, and is U's only active conversation; no
\* statement of create changes a row of another user.
C6_CreateResult ==
    [][\A p \in Procs :
        /\ (req[p].op = "create" /\ Moves(p))
              => \A c \in DOMAIN convs :
                    convs[c].user_id # req[p].user
                    => c \in DOMAIN convs' /\ convs'[c] = convs[c]
        /\ (pc'[p] = "done" /\ req'[p].op = "create" /\ loc'[p].status = "200")
              => LET n == loc'[p].id
                 IN /\ n \in DOMAIN convs'
                    /\ convs'[n].user_id = req'[p].user
                    /\ convs'[n].label = req'[p].label
                    /\ convs'[n].is_active
                    /\ ActiveOf(convs', req'[p].user) = {n}]_vars

C6_Witness ==
    \E p \in Procs :
        /\ Returned(p, "create", "200")
        /\ req[p].label = "Trip plan"
        /\ convs[loc[p].id].label = "Trip plan"
        /\ \E c \in ConvsOf(req[p].user) : c # loc[p].id /\ ~convs[c].is_active

\* C7: an ensure_active(U) whose connections all succeed, called while U has no
\* active conversation, goes on to create; its statements never turn an inactive
\* row active, insert exactly one row (U's, labelled "New Chat", active), and the
\* call returns that row, which is then U's only active conversation.
C7_EnsureCreatesWhenNoneActive ==
    [][\A p \in Procs :
        (req[p].op = "ensure_active" /\ Moves(p) /\ loc'[p].conn)
        => LET u == req[p].user
           IN /\ (pc[p] = "ea_get" /\ ActiveOf(convs, u) = {})
                    => pc'[p] = "cr_update" /\ convs' = convs
              /\ pc[p] \in {"ea_get", "cr_update", "cr_insert", "cr_select"}
                    => \A c \in DOMAIN convs :
                          /\ c \in DOMAIN convs'
                          /\ convs'[c].is_active => convs[c].is_active
              /\ pc[p] = "cr_update"
                    => DOMAIN convs' = DOMAIN convs /\ ActiveOf(convs', u) = {}
              /\ pc[p] = "cr_insert"
                    => /\ nextConvId \notin DOMAIN convs
                       /\ DOMAIN convs' = DOMAIN convs \cup {nextConvId}
                       /\ convs'[nextConvId].user_id = u
                       /\ convs'[nextConvId].label = DefaultLabel
                       /\ convs'[nextConvId].is_active
                       /\ loc'[p].id = nextConvId
                       /\ \A c \in DOMAIN convs : convs'[c] = convs[c]
              /\ pc[p] = "cr_select"
                    => /\ pc'[p] = "done"
                       /\ loc'[p].status = "conversation"
                       /\ loc'[p].id = loc[p].id
                       /\ convs' = convs
                       /\ ActiveOf(convs, u) = {loc[p].id}]_vars

C7_Witness ==
    \E p \in Procs :
        /\ Returned(p, "ensure_active", "conversation")
        /\ loc[p].conn
        /\ loc[p].id = nextConvId - 1
        /\ convs[loc[p].id].label = DefaultLabel
        /\ \E c \in ConvsOf(req[p].user) : c # loc[p].id /\ ~convs[c].is_active

SecondApplication(cs, cid, l, t) == RowCount(cs, SetLabelIfDefault(cs, cid, l, t)) > 0

\* C9 as stated: with the datastore reachable, rename_if_default on a conversation
\* whose label is not "New Chat" returns False and leaves the label unchanged; on a
\* conversation whose label is "New Chat" it sets the label and returns True, and a
\* second application then returns False.
C9_RenameIfDefault ==
    [][\A p \in Procs :
        (pc[p] = "rd_update" /\ Moves(p) /\ loc'[p].conn /\ req[p].cid \in DOMAIN convs)
        => LET c == req[p].cid
           IN /\ convs[c].label # DefaultLabel
                    => loc'[p].status = "False" /\ convs' = convs
              /\ convs[c].label = DefaultLabel
                    => /\ convs'[c].label = req[p].label
                       /\ loc'[p].status = "True"
                       /\ \A l \in Labels, t \in {now, now + 1} :
                             ~SecondApplication(convs', c, l, t)]_vars

\* C9 amended: the same, for a new label other than "New Chat".
C9_RenameIfDefaultToOtherLabel ==
    [][\A p \in Procs :
        (pc[p] = "rd_update" /\ Moves(p) /\ loc'[p].conn /\ req[p].cid \in DOMAIN convs)
        => LET c == req[p].cid
           IN /\ convs[c].label # DefaultLabel
                    => loc'[p].status = "False" /\ convs' = convs
              /\ (convs[c].label = DefaultLabel /\ req[p].label # DefaultLabel)
                    => /\ convs'[c].label = req[p].label
                       /\ loc'[p].status = "True"
                       /\ \A o \in DOMAIN convs : o # c => convs'[o] = convs[o]
                       /\ \A l \in Labels, t \in {now, now + 1} :
                             /\ ~SecondApplication(convs', c, l, t)
                             /\ SetLabelIfDefault(convs', c, l, t) = convs']_vars

C9_Witness ==
    \E p \in Procs :
        /\ Returned(p, "rename_if_default", "True")
        /\ req[p].label # DefaultLabel
        /\ convs[req[p].cid].label = req[p].label
        /\ \E o \in DOMAIN convs : o # req[p].cid /\ convs[o].label = DefaultLabel

\* C10 as stated: once a user rename of a conversation has completed, no statement
\* of a chat turn changes that conversation's label.
C10_AutoTitleKeepsUserTitle ==
    [][\A p \in Procs :
        (req[p].op = "chat" /\ Moves(p))
        => \A c \in userTitled : convs'[c].label = convs[c].label]_vars

\* C10 amended: once a user rename of a conversation to a title other than
\* "New Chat" has completed, no statement of a chat turn changes that label, also
\* when the turn read the label "New Chat" at resolution.
C10_AutoTitleKeepsOtherUserTitle ==
    [][\A p \in Procs :
        (req[p].op = "chat" /\ Moves(p))
        => \A c \in userTitled :
              convs[c].label # DefaultLabel => convs'[c].label = convs[c].label]_vars

C10_Witness ==
    \E p \in Procs :
        /\ Returned(p, "chat", "200")
        /\ loc[p].conn
        /\ loc[p].label = DefaultLabel
        /\ loc[p].id \in userTitled
        /\ convs[loc[p].id].label = "Trip plan"

\* the messages of conversation c with the given role
MessagesOf(c, role) ==
    {m \in DOMAIN msgs : msgs[m].conversation_id = c /\ msgs[m].role = role}

\* C11 as stated: when the chat turn of a user who had no conversation has returned
\* success with every connection obtained, the user has exactly one conversation,
\* it is active, holds exactly one user message and one assistant message, and its
\* label is not "New Chat".
C11_FirstChat ==
    \A p \in Procs :
        (Returned(p, "chat", "200") /\ loc[p].conn /\ loc[p].first)
        => /\ ConvsOf(req[p].user) = {loc[p].id}
           /\ convs[loc[p].id].is_active
           /\ Cardinality(MessagesOf(loc[p].id, "user")) = 1
           /\ Cardinality(MessagesOf(loc[p].id, "assistant")) = 1
           /\ convs[loc[p].id].label # DefaultLabel

\* C11 amended: the same, the label being the title generated for the turn (which
\* is not "New Chat" unless the generated title is).
C11_FirstChatTitled ==
    \A p \in Procs :
        (Returned(p, "chat", "200") /\ loc[p].conn /\ loc[p].first)
        => /\ ConvsOf(req[p].user) = {loc[p].id}
           /\ convs[loc[p].id].is_active
           /\ Cardinality(MessagesOf(loc[p].id, "user")) = 1
           /\ Cardinality(MessagesOf(loc[p].id, "assistant")) = 1
           /\ \A m \in MessagesOf(loc[p].id, "user") :
                 /\ msgs[m].content = UserMessage /\ msgs[m].user_id = req[p].user
                 /\ \A a \in MessagesOf(loc[p].id, "assistant") :
                       m < a /\ msgs[a].content = loc[p].reply
           /\ convs[loc[p].id].label = loc[p].title
           /\ loc[p].title # DefaultLabel => convs[loc[p].id].label # DefaultLabel

C11_Witness ==
    \E p \in Procs :
        /\ Returned(p, "chat", "200") /\ loc[p].conn /\ loc[p].first
        /\ convs[loc[p].id].label = "Greeting"
        /\ \E c \in DOMAIN convs : convs[c].user_id # req[p].user

\* C12: over chat turns of a user, run one after the other or at the same time, a
\* label that is not "New Chat" is never changed again: auto-labeling changes the
\* label of a conversation at most once, from "New Chat", and no later turn
\* re-titles it.
C12_TitledAtMostOnce ==
    [][\A c \in DOMAIN convs :
          convs[c].label # DefaultLabel
          => c \in DOMAIN convs' /\ convs'[c].label = convs[c].label]_vars

\* two turns that both read the label "New Chat" at resolution have both run their
\* auto-label with different titles
C12_Witness ==
    /\ Returned("p1", "chat", "200") /\ Returned("p2", "chat", "200")
    /\ loc["p1"].id = loc["p2"].id
    /\ loc["p1"].label = DefaultLabel /\ loc["p2"].label = DefaultLabel
    /\ loc["p1"].conn /\ loc["p2"].conn
    /\ loc["p1"].title # loc["p2"].title
    /\ convs[loc["p1"].id].label = "Greeting"

\* C13: when the delete route has answered success for conversation c, no message
\* with conversation id c is stored, get_messages_by_conversation(c) is empty, c is
\* not found by id and no user's active conversation is c.
C13_DeleteRemovesMessages ==
    \A p \in Procs :
        Returned(p, "delete_chat", "200")
        => LET c == req[p].cid
           IN /\ \A m \in DOMAIN msgs : msgs[m].conversation_id # c
              /\ ListForConversation(msgs, c, ListLimit) = <<>>
              /\ c \notin DOMAIN convs
              /\ \A u \in Users : c \notin MostRecentActive(convs, u)

\* C14: every stored message references a conversation whose row exists, after any
\* interleaving of chat turns, uploads and deletes.
C14_MessagesBelong ==
    \A m \in DOMAIN msgs : msgs[m].conversation_id \in DOMAIN convs

\* what the chat turn at p hands to store_message in its next statement
Appended(p) ==
    CASE pc[p] = "ch_user" -> [role |-> "user", content |-> UserMessage]
      [] pc[p] = "ch_reply" -> [role |-> "assistant", content |-> loc[p].reply]

C17_AdapterReturnsText ==
    \A p \in Procs :
        /\ ~Returned(p, "chat", "500")
        /\ loc[p].calls # <<>>
           => /\ loc[p].reply \in AIReplies
              /\ \A i \in 1..Len(loc[p].calls) :
                    (loc[p].calls[i].model = "text" /\ loc[p].calls[i].error # "")
                    => loc[p].reply = ErrorText(loc[p].calls[i].error)

\* a turn whose history held an image: both vision models and the text model raised
C17_Witness ==
    \E p \in Procs :
        /\ Returned(p, "chat", "200") /\ loc[p].image
        /\ Len(loc[p].calls) = 3
        /\ \A i \in 1..3 : loc[p].calls[i].error # ""
        /\ loc[p].reply = "AI Error: timeout"

\* the statements of a chat turn after the conversation is resolved
ChatSteps == {"ch_user", "ch_history", "ch_ai", "ch_reply", "ch_label"}

\* C18: a store_message that stores nothing (no connection, or the INSERT raised)
\* does not abort the chat turn.  After the user message was not stored the turn goes
\* on to read the history and ask the adapter; after the reply was not stored it goes
\* on to the labeling or answers; and a turn, once its conversation is resolved,
\* only ever answers 200 with the reply get_ai_response returned.
C18_StoreFailureContinues ==
    [][\A p \in Procs :
          (req[p].op = "chat" /\ pc[p] \in ChatSteps /\ Moves(p))
          => /\ pc'[p] \in ChatSteps \cup {"done"}
             /\ (pc[p] = "ch_user" /\ msgs' = msgs) => pc'[p] = "ch_history"
             /\ (pc[p] = "ch_reply" /\ msgs' = msgs) => pc'[p] \in {"ch_label", "done"}
             /\ pc[p] \in {"ch_reply", "ch_label"} => loc'[p].reply = loc[p].reply
             /\ pc'[p] = "done"
                => loc'[p].status = "200" /\ loc'[p].reply \in AIReplies]_vars

\* a turn answered 200 with the model's reply although neither of its messages was
\* stored
C18_Witness ==
    \E p \in Procs :
        /\ Returned(p, "chat", "200") /\ loc[p].reply = "reply"
        /\ loc[p].id \in DOMAIN convs
        /\ \A m \in DOMAIN msgs : msgs[m].conversation_id # loc[p].id

\* C19: a chat turn ignores the conversation_id its request carries.  Whatever id is
\* supplied, the conversation the turn works on is the one ensure_active_conversation
\* resolves from the user's rows alone (the user's active conversation, or the one
\* just created for the user), every message the turn stores carries that
\* conversation's id, the labeling touches no other row, and the response returns
\* that id: two requests that differ only in the supplied id do the same.
C19_SuppliedIdIgnored ==
    [][\A p \in Procs :
          (req[p].op = "chat" /\ Moves(p))
          => /\ pc'[p] = "ch_user"
                => /\ loc'[p].id \in ActiveOf(convs', req[p].user)
                   /\ pc[p] = "ea_get" => ActiveOf(convs, req[p].user) = {loc'[p].id}
                   /\ pc[p] = "cr_select" => loc'[p].id = nextConvId - 1
             /\ pc[p] \in ChatSteps
                => /\ loc'[p].id = loc[p].id
                   /\ nextMsgId' # nextMsgId
                      => msgs'[nextMsgId].conversation_id = loc[p].id
                   /\ \A c \in DOMAIN convs \ {loc[p].id} : convs'[c] = convs[c]]_vars

\* a turn that carried the id of another user's conversation answered with the id of
\* its own user's conversation, where its two messages are; the other has none
C19_Witness ==
    \E p \in Procs :
        /\ Returned(p, "chat", "200")
        /\ req[p].cid \in DOMAIN convs /\ convs[req[p].cid].user_id # req[p].user
        /\ loc[p].id # req[p].cid
        /\ Cardinality({m \in DOMAIN msgs : msgs[m].conversation_id = loc[p].id}) = 2
        /\ \A m \in DOMAIN msgs : msgs[m].conversation_id # req[p].cid

\* the step commits the write of p's create_conversation or switch_conversation
Commits(p) ==
    \/ req[p].op = "create" /\ pc[p] = "cr_insert" /\ pc'[p] = "cr_select"
    \/ req[p].op = "switch" /\ pc[p] = "sw_activate" /\ pc'[p] = "done"
       /\ loc'[p].status = "True"

\* p's write has been committed
Committed(p) ==
    \/ req[p].op = "create" /\ (pc[p] = "cr_select" \/ Returned(p, "create", "200"))
    \/ Returned(p, "switch", "True")

\* the conversation p's request makes active
Target(p) == IF req[p].op = "create" THEN nextConvId ELSE req[p].cid

\* C20: of two create/switch requests of one user that run at the same time, the one
\* whose write is committed last determines the active conversation: when it commits
\* (the other's write being committed already, so that nothing is written until both
\* have finished) the user's active conversation is exactly its target.
C20_LastWriteWins ==
    [][\A p, q \in Procs :
          (p # q /\ req[p].user = req[q].user /\ Committed(q) /\ Commits(p))
          => ActiveOf(convs', req[p].user) = {Target(p)}]_vars

\* the adapter of p's turn has asked every model it could and the last one raised
Exhausted(p) ==
    loc[p].calls # <<>> /\ loc[p].calls[Len(loc[p].calls)].error # ""

\* C21 (as claimed): a chat turn ends with a success response or at its first fatal
\* failure, the datastore unreachable at resolution (503) or the adapter exhausting
\* its models; after either no later step of the turn (storing the assistant
\* message, labeling) runs.
C21_TerminalOnFatal ==
    [][\A p \in Procs :
          (req[p].op = "chat" /\ Moves(p))
          => /\ pc'[p] = "done" => loc'[p].status \in {"200", "503"}
             /\ (loc[p].status = "503" \/ Exhausted(p)) => pc[p] \notin ChatSteps]_vars

\* C21 (amended): the only fatal failure is the failed resolution.  A turn ends with
\* 200 or 503; 503 comes from the resolution only and no step of the turn follows
\* it.  When the adapter has exhausted its models the turn goes on with the error
\* text as its reply: it stores that text as the assistant message, labels, and
\* answers 200 carrying it.
C21_TerminalOnUnreachable ==
    [][\A p \in Procs :
          (req[p].op = "chat" /\ Moves(p))
          => /\ pc'[p] = "done" => loc'[p].status \in {"200", "503"}
             /\ loc'[p].status = "503" => pc[p] \in {"cr_update", "cr_insert", "cr_select"}
             /\ loc[p].status = "503" => pc[p] \notin ChatSteps
             /\ (Exhausted(p) /\ pc[p] \in ChatSteps)
                => /\ pc'[p] \in {"ch_label", "done"}
                   /\ loc'[p].reply = ErrorText(loc[p].calls[Len(loc[p].calls)].error)
                   /\ nextMsgId' # nextMsgId
                      => /\ msgs'[nextMsgId].role = "assistant"
                         /\ msgs'[nextMsgId].content = loc[p].reply
                   /\ pc'[p] = "done" => loc'[p].status = "200"]_vars

\* a turn whose adapter exhausted its models answered 200: the error text is stored
\* as the conversation's assistant message and the conversation was labeled after it
C21_Witness ==
    \E p \in Procs :
        /\ Returned(p, "chat", "200") /\ Exhausted(p)
        /\ \E m \in DOMAIN msgs :
              /\ msgs[m].conversation_id = loc[p].id /\ msgs[m].role = "assistant"
              /\ msgs[m].content = "AI Error: timeout"
        /\ loc[p].title = "Greeting" /\ convs[loc[p].id].label = "Greeting"

\* the row of the user message of p's turn
UserRow(p) ==
    [user_id |-> req[p].user, role |-> "user", content |-> UserMessage,
     conversation_id |-> loc[p].id]

C23_MessagesBeforeRow ==
    \A p \in Procs :
        req[p].op = "delete_chat"
        => LET left == {m \in DOMAIN msgs : msgs[m].conversation_id = req[p].cid}
           IN /\ left # {} => req[p].cid \in DOMAIN convs
              /\ pc[p] = "dl_conversation" => req[p].cid \in DOMAIN convs /\ left = {}

\* C24: in vision mode every message of the request sent to a vision model, the
\* system instruction included, has its content as a list of typed parts; none has a
\* plain string.
C24_VisionAllParts ==
    \A p \in Procs :
        \A i \in 1..Len(loc[p].sent.vision) : loc[p].sent.vision[i].format = "parts"

\* C25: both messages of a chat turn are attached to the conversation resolved at
\* the start of the turn, whatever create, switch or archive does to the user's
\* active conversation while the turn runs: the turn keeps the id it resolved, and
\* stores the user message and the assistant message under it.
C25_SameConversation ==
    [][\A p \in Procs :
          (req[p].op = "chat" /\ pc[p] \in ChatSteps /\ Moves(p))
          => /\ loc'[p].id = loc[p].id
             /\ (pc[p] = "ch_user" /\ msgs' # msgs)
                => msgs'[nextMsgId] = UserRow(p)
             /\ (pc[p] = "ch_reply" /\ msgs' # msgs)
                => /\ msgs'[nextMsgId].conversation_id = loc[p].id
                   /\ loc[p].uid # 0
                      => msgs'[loc[p].uid].conversation_id
                            = msgs'[nextMsgId].conversation_id]_vars

\* a turn has stored both its messages under the conversation it resolved, which is
\* no longer active: another conversation of the user became the active one after
\* the user message was stored
C25_Witness ==
    \E p \in Procs :
        /\ Returned(p, "chat", "200") /\ loc[p].uid # 0
        /\ \E a \in DOMAIN msgs :
              /\ a > loc[p].uid /\ msgs[a].role = "assistant"
              /\ msgs[a].conversation_id = loc[p].id
              /\ msgs[loc[p].uid].conversation_id = loc[p].id
        /\ ~convs[loc[p].id].is_active
        /\ \E c \in ActiveOf(convs, req[p].user) : c # loc[p].id

\* C26: a statement run on behalf of user U (in ensure_active, create, switch, a
\* chat turn or an upload) leaves every conversation owned by another user as it was
\* (active flag, label, updated timestamp) and stores no message under a
\* conversation owned by another user.
C26_OtherUsersUntouched ==
    [][\A p \in Procs :
          (req[p].op \in UserOps /\ Moves(p))
          => /\ \A c \in DOMAIN convs :
                   convs[c].user_id # req[p].user
                   => c \in DOMAIN convs' /\ convs'[c] = convs[c]
             /\ nextMsgId' # nextMsgId
                => LET c == msgs'[nextMsgId].conversation_id
                   IN c \in DOMAIN convs' /\ convs'[c].user_id = req[p].user]_vars

\* a user's chat turn has stored its messages and labeled its conversation, at a
\* later time than the other user's active conversation was last written
C26_Witness ==
    \E p \in Procs, c, d \in DOMAIN convs :
        /\ Returned(p, "chat", "200") /\ loc[p].id = c
        /\ convs[c].user_id = req[p].user /\ convs[c].label = "Greeting"
        /\ convs[c].updated_at = 1
        /\ \E m \in DOMAIN msgs : msgs[m].conversation_id = c
        /\ convs[d].user_id # req[p].user /\ convs[d].is_active
        /\ convs[d].updated_at = 0

\* C27: switch(U, c) and create(U, label) leave the updated timestamp of the
\* conversations of U that were inactive when the call was made and are inactive when
\* its writes are committed as it was (so their order by updated timestamp is kept).
C27_InactiveTimestampsKept ==
    [][\A p \in Procs :
          (/\ Moves(p)
           /\ \/ req[p].op = "switch" /\ pc[p] = "sw_activate" /\ loc'[p].status = "True"
              \/ req[p].op = "create" /\ pc[p] = "cr_insert" /\ pc'[p] = "cr_select")
          => LET old == loc[p].tx.old
             IN \A c \in DOMAIN old :
                   (~old[c].is_active /\ c \in DOMAIN convs' /\ ~convs'[c].is_active)
                   => convs'[c].updated_at = old[c].updated_at]_vars

\* the request the claim describes for a history h: the system instruction, the
\* messages of h, the current user message
RequestFor(h) ==
    <<[role |-> "system", content |-> SystemContent, format |-> "string"]>>
    \o [i \in 1..Len(h) |->
           [role |-> h[i].role, content |-> h[i].content, format |-> "string"]]
    \o <<[role |-> "user", content |-> UserMessage, format |-> "string"]>>

\* C28: the message list a chat turn sends to the model is the system instruction,
\* then the earlier messages of the conversation (those stored before the turn's
\* user message; the last HistoryLimit of them, in ascending id order; none when
\* the history could not be read), then the current user message, once, at the end.
C28_RequestShape ==
    [][\A p \in Procs :
          (req[p].op = "chat" /\ pc[p] = "ch_ai" /\ Moves(p))
          => LET before == [m \in DOMAIN msgs \ {loc[p].uid} |-> msgs[m]]
                 earlier == ChatHistory(before, req[p].user, loc[p].id, HistoryLimit)
             IN loc'[p].sent.text \in {RequestFor(earlier), RequestFor(<<>>)}]_vars

====
